---------------------------- MODULE Spec2Model ----------------------------
(***************************************************************************)
(* EdgeNudge browser front end (src/frontend/app.js): the page's global    *)
(* state, the widgets and result panels it reads and writes, the pending   *)
(* timers and in-flight inferences of the event loop, and one action per   *)
(* handler.                                                                *)
(*                                                                         *)
(* Units.  Temperatures are in tenths of a degree Celsius (20.5 C = 205),  *)
(* energies in watt-hours (the code's kWh times 1000), latencies in whole  *)
(* milliseconds, and a toFixed(2) text is the number of hundredths it      *)
(* shows.  The execution-provider texts, the console log and the CO2 and   *)
(* tree figures (fixed multiples of totalKwh that are only displayed) are  *)
(* not carried.                                                            *)
(***************************************************************************)
EXTENDS Integers, Sequences, FiniteSets

VARIABLES
    initPc,            \* where init() stands: its awaits are the only suspension points
    session,           \* app.js:7   TRUE when the ONNX session exists
    modelInfo,         \* app.js:8   "null", "ok" or "nosize" (document without model_size_kb)
    modelSizeText,     \* #modelSize text: "unset" or "shown"
    modelStatus,       \* #modelStatus badge: [text, ready]
    listeners,         \* TRUE once setupEventListeners has run
    autoDemoBtn,       \* #autoDemoBtn style.display
    demoBanner,        \* #demoBanner style.display
    demoScenario,      \* #demoScenario text: 0 (never set) or the step number k of "Scenario k/4"
    widgets,           \* the six input widgets
    sensorDisplay,     \* the four value labels written by updateSensorDisplays
    timeouts,          \* pending setTimeout(runPrediction, 500) callbacks, in due order
    inflight,          \* runPrediction calls suspended at await session.run, in start order
    inferenceTime,     \* app.js:9
    predictionCount,   \* app.js:10
    totalLatency,      \* app.js:11
    results,           \* the result, metrics, nudge and summary panels
    alertMsg,          \* the text of the last alert() raised
    intervals,         \* the live setInterval timers of the page (handles)
    autoDemoInterval,  \* app.js:12  NoTimer (null) or a handle
    currentDemoStep,   \* app.js:13
    firstTickPending,  \* history: startAutoDemo ran and no tick or stop came after it
    last,              \* history: the last completed prediction (label, latency, estimate)
    completedOK,       \* history: number of predictions that completed successfully
    latencySum,        \* history: sum of their latencies
    triggersLeft,      \* history: triggers raised (Predict clicks, settle timeouts
                       \* scheduled) minus invocations of session.run
    createAttempts,    \* history: number of calls of InferenceSession.create
    manualInputs       \* history: number of widget events the user has made by hand

vars == <<initPc, session, modelInfo, modelSizeText, modelStatus, listeners,
          autoDemoBtn, demoBanner, demoScenario, widgets, sensorDisplay,
          timeouts, inflight, inferenceTime, predictionCount, totalLatency,
          results, alertMsg, intervals, autoDemoInterval, currentDemoStep,
          firstTickPending, last, completedOK, latencySum, triggersLeft,
          createAttempts, manualInputs>>

---------------------------------------------------------------------------
(* Bounds of the model *)

MaxPending == 2        \* runs pending (settle timeouts and inferences awaiting the
                       \* engine) that a user action may add to; inferences in flight
MaxPredictions == 2    \* successful predictions counted
MaxManual == 1         \* widget events the user makes by hand

---------------------------------------------------------------------------
(* Program constants *)

NoTimer == 0                 \* autoDemoInterval = null
LIGHTS_POWER == 10
FAN_POWER == 75
AC_POWER == 500
hoursEmpty == 2
LightThreshold == 300
FanThreshold == 240          \* 24 C
AcThreshold == 250           \* 25 C
costPerKwhCents == 12        \* 0.12 dollars per kWh
DefaultConfidence == 95
roomsCount == 100
daysPerMonth == 30
daysPerYear == 365
optimizationRateTenths == 3  \* 0.3
predictionsPerDay == 4

demoScenarios == <<"empty", "morning", "evening", "weekend">>

PresetNames == {"empty", "morning", "evening", "weekend"}

presets ==
    [n \in PresetNames |->
        CASE n = "empty"   -> [hour |-> 2,  day |-> 1, light |-> 15,  temp |-> 200,
                               pir |-> FALSE, phone |-> FALSE,
                               name |-> "Late Night (Empty)"]
          [] n = "morning" -> [hour |-> 9,  day |-> 2, light |-> 550, temp |-> 230,
                               pir |-> TRUE, phone |-> TRUE,
                               name |-> "Morning Class (Occupied)"]
          [] n = "evening" -> [hour |-> 20, day |-> 3, light |-> 600, temp |-> 235,
                               pir |-> TRUE, phone |-> TRUE,
                               name |-> "Evening Study (Occupied)"]
          [] n = "weekend" -> [hour |-> 8,  day |-> 5, light |-> 200, temp |-> 205,
                               pir |-> FALSE, phone |-> FALSE,
                               name |-> "Weekend Morning (Empty)"]]

dayNames == <<"Monday", "Tuesday", "Wednesday", "Thursday", "Friday", "Saturday", "Sunday">>

ModelNotLoadedAlert == "Model not loaded yet!"
PredictionFailedAlert == "Prediction failed! Check console for details."
NudgeAlert ==
    "In production, this would send a signal to building automation or notify facility manager!"

---------------------------------------------------------------------------
(* Pure helpers *)

\* The numbers of the page are doubles.  The model keeps the exact decimal value
\* a double stands for (num/den with small integers) and works out, where a text
\* depends on it, on which side of that value the double lies.

RECURSIVE Log2Up(_, _, _)
Log2Up(num, d, k) == IF 2 * d <= num THEN Log2Up(num, 2 * d, k + 1) ELSE k

RECURSIVE Log2Down(_, _, _)
Log2Down(n, den, k) == IF n < den THEN Log2Down(2 * n, den, k + 1) ELSE k

\* The exponent of num/den: the k with 2^k <= num/den < 2^(k+1) (num, den > 0)
Log2Floor(num, den) ==
    IF num >= den THEN Log2Up(num, den, 0) ELSE 0 - Log2Down(num, den, 0)

RECURSIVE DoubleTail(_, _, _, _)
\* e more binary digits of a quotient by long division, eight at a time while
\* eight are left: r is the remainder so far and acc the low 16 bits of the
\* digits so far
DoubleTail(r, acc, e, den) ==
    IF e = 0 THEN [r |-> r, acc |-> acc]
    ELSE IF e >= 8
    THEN DoubleTail((256 * r) % den, (256 * acc + (256 * r) \div den) % 65536,
                    e - 8, den)
    ELSE DoubleTail((2 * r) % den, (2 * acc + (2 * r) \div den) % 65536, e - 1, den)

\* The double nearest to num/den (0 < num < 2^31, 0 < den < 2^23), ties to the
\* even significand: it is M / 2^e with M of 53 bits, of which low is M mod 2^16,
\* and num * 2^e = M * den + rem
DoubleOf(num, den) ==
    LET e == 52 - Log2Floor(num, den)
        t == DoubleTail(num % den, (num \div den) % 65536, e, den)
        up == IF 2 * t.r > den \/ (2 * t.r = den /\ t.acc % 2 = 1) THEN 1 ELSE 0
    IN  [e |-> e, low |-> (t.acc + up) % 65536, rem |-> t.r - up * den]

\* The side of num/den its nearest double lies on: -1 below, 0 equal, 1 above
DoubleError(num, den) ==
    LET rem == DoubleOf(num, den).rem
    IN  IF rem > 0 THEN 0 - 1 ELSE IF rem < 0 THEN 1 ELSE 0

\* The side of n * num/den the double product n * (num/den) lies on, for a whole
\* number 0 < n < 2^14 (or n / 2^k, which is the same significand) and the double
\* nearest to num/den: the product of the significands has j bits too many and
\* is rounded to the nearest multiple of 2^j, ties to even
ProductError(n, num, den) ==
    LET c == DoubleOf(num, den)
        j == Log2Floor(n * num, den) - Log2Floor(num, den)
        u == 2 ^ j
        lowbits == (n * (c.low % (2 * u))) % (2 * u)
        low == lowbits % u
        up == 2 * low > u \/ (2 * low = u /\ lowbits >= u)
        diff == (IF up THEN u - low ELSE 0 - low) * den - n * c.rem
    IN  IF diff > 0 THEN 1 ELSE IF diff < 0 THEN 0 - 1 ELSE 0

\* num/den lies half way between two numbers of two decimals
IsTie2(num, den) == (200 * num + den) % (2 * den) = 0

\* Number.prototype.toFixed(2) of the double nearest to num/den (den > 0,
\* 0 <= num < 10^7): the hundredths shown.  toFixed takes the number of two
\* decimals nearest to the double, and the larger of two equally near.  A double
\* is far nearer to num/den than num/den is to a half way point it is not on, so
\* the text is that of num/den unless num/den is half way; then the double,
\* unless it is num/den itself, lies on one side, and that side is shown.
ToFixed2(num, den) ==
    LET n == (200 * num + den) \div (2 * den)
    IN  IF IsTie2(num, den) /\ DoubleError(num, den) < 0 THEN n - 1 ELSE n

\* toFixed(2) of totalCost = totalKwh * 0.12 (line 441), for totalCost in
\* 1/100000 of a dollar.  The cost is half way only for a totalKwh of an odd
\* number of eighths, cost = 1500 * odd; the double is then the product of
\* odd/8 and the double 0.12, which need not be the double nearest to the cost.
ToFixed2Cost(cost) ==
    LET n == (200 * cost + 100000) \div 200000
        below == IF cost % 1500 = 0 /\ cost \div 1500 < 16384
                 THEN ProductError(cost \div 1500, 12, 100) < 0
                 ELSE DoubleError(cost, 100000) < 0
    IN  IF IsTie2(cost, 100000) /\ below THEN n - 1 ELSE n

\* Number.prototype.toFixed(0) of num/den.  A half way point k + 1/2 is a double,
\* and the larger neighbour is shown.
ToFixed0(num, den) == (2 * num + den) \div (2 * den)

\* The widget values a preset writes (applyPreset, lines 228-233)
PresetWidgets(presetName) ==
    LET preset == presets[presetName]
    IN  [hour |-> preset.hour, day |-> preset.day, light |-> preset.light,
         temp |-> preset.temp, pir |-> preset.pir, phone |-> preset.phone]

\* updateSensorDisplays: the four labels follow the widgets (dayNames[day] is
\* undefined outside 0..6)
UpdateSensorDisplays(w) ==
    [hourValue |-> w.hour,
     dayValue |-> IF w.day \in 0..6 THEN dayNames[w.day + 1] ELSE "undefined",
     lightValue |-> w.light,
     tempValue |-> w.temp]

\* Mutant: the hour is clamped to 0..23
getSensorValuesClamped(w) ==
    [hour |-> IF w.hour > 23 THEN 23 ELSE IF w.hour < 0 THEN 0 ELSE w.hour,
     day_of_week |-> w.day,
     ambient_light |-> w.light,
     pir_motion |-> IF w.pir THEN 1 ELSE 0,
     phone_presence |-> IF w.phone THEN 1 ELSE 0,
     temperature |-> w.temp]

\* getSensorValues: the toggles become 1 or 0, the sliders are parsed as numbers
getSensorValues(w) ==
    [hour |-> w.hour,
     day_of_week |-> w.day,
     ambient_light |-> w.light,
     pir_motion |-> IF w.pir THEN 1 ELSE 0,
     phone_presence |-> IF w.phone THEN 1 ELSE 0,
     temperature |-> w.temp]

\* A 32-bit float is written [m, k] for m / 2^k, with m odd or k = 0.
RECURSIVE Float32Scale(_, _, _)
\* x * 2^k doubled until it has the 24 significant bits of a float (x > 0)
Float32Scale(x, k, den) ==
    IF x >= 8388608 * den THEN [x |-> x, k |-> k] ELSE Float32Scale(2 * x, k + 1, den)

RECURSIVE Float32Normal(_, _)
Float32Normal(m, k) ==
    IF k > 0 /\ m % 2 = 0 THEN Float32Normal(m \div 2, k - 1) ELSE [m |-> m, k |-> k]

\* The nearest float with 24 significant bits to num/den, by scaling and
\* rounding, ties to the even significand
Float32Round(num, den) ==
    IF num = 0 THEN [m |-> 0, k |-> 0]
    ELSE LET a == IF num < 0 THEN 0 - num ELSE num
             s == Float32Scale(a, 0, den)
             q == s.x \div den
         r == s.x % den
         m == IF 2 * r > den \/ (2 * r = den /\ q % 2 = 1) THEN q + 1 ELSE q
         f == Float32Normal(m, s.k)
         IN  [m |-> IF num < 0 THEN 0 - f.m ELSE f.m, k |-> f.k]

\* The element a Float32Array stores for the number num/den (den > 0,
\* |num/den| < 2^24).  A whole number of that size, and an odd number of halves
\* below 2^23, have at most 24 significant bits and are stored as they are; any
\* other number is rounded.
Float32(num, den) ==
    IF num % den = 0 THEN [m |-> num \div den, k |-> 0]
    ELSE IF /\ (2 * num) % den = 0
            /\ num < 8388608 * den
            /\ 0 - num < 8388608 * den
         THEN [m |-> (2 * num) \div den, k |-> 1]
    ELSE Float32Round(num, den)

\* The Float32Array handed to the engine (lines 274-281); the temperature is in
\* tenths of a degree
InputArray(sensors) ==
    <<Float32(sensors.hour, 1), Float32(sensors.day_of_week, 1),
      Float32(sensors.ambient_light, 1), Float32(sensors.pir_motion, 1),
      Float32(sensors.phone_presence, 1), Float32(sensors.temperature, 10)>>

NoEstimate ==
    [made |-> FALSE, lightsKwh |-> 0, fanKwh |-> 0, acKwh |-> 0, totalKwh |-> 0,
     totalCost |-> 0, hoursEmpty |-> 0]

\* Mutant: the fan counts only above 26 C, one degree above the AC
calculateEnergySavingsFanLater(sensors) ==
    LET lightsKwh == IF sensors.ambient_light > LightThreshold
                     THEN LIGHTS_POWER * hoursEmpty ELSE 0
        fanKwh    == IF sensors.temperature > AcThreshold + 10
                     THEN FAN_POWER * hoursEmpty ELSE 0
        acKwh     == IF sensors.temperature > AcThreshold
                     THEN AC_POWER * hoursEmpty ELSE 0
        totalKwh  == lightsKwh + fanKwh + acKwh
    IN  [made |-> TRUE, lightsKwh |-> lightsKwh, fanKwh |-> fanKwh, acKwh |-> acKwh,
         totalKwh |-> totalKwh, totalCost |-> totalKwh * costPerKwhCents,
         hoursEmpty |-> hoursEmpty]

\* Mutant: the total leaves the fan out
calculateEnergySavingsNoFan(sensors) ==
    LET lightsKwh == IF sensors.ambient_light > LightThreshold
                     THEN LIGHTS_POWER * hoursEmpty ELSE 0
        fanKwh    == IF sensors.temperature > FanThreshold
                     THEN FAN_POWER * hoursEmpty ELSE 0
        acKwh     == IF sensors.temperature > AcThreshold
                     THEN AC_POWER * hoursEmpty ELSE 0
        totalKwh  == lightsKwh + acKwh
    IN  [made |-> TRUE, lightsKwh |-> lightsKwh, fanKwh |-> fanKwh, acKwh |-> acKwh,
         totalKwh |-> totalKwh, totalCost |-> totalKwh * costPerKwhCents,
         hoursEmpty |-> hoursEmpty]

\* Mutant: the thresholds are inclusive
calculateEnergySavingsInclusive(sensors) ==
    LET lightsKwh == IF sensors.ambient_light >= LightThreshold
                     THEN LIGHTS_POWER * hoursEmpty ELSE 0
        fanKwh    == IF sensors.temperature >= FanThreshold
                     THEN FAN_POWER * hoursEmpty ELSE 0
        acKwh     == IF sensors.temperature >= AcThreshold
                     THEN AC_POWER * hoursEmpty ELSE 0
        totalKwh  == lightsKwh + fanKwh + acKwh
    IN  [made |-> TRUE, lightsKwh |-> lightsKwh, fanKwh |-> fanKwh, acKwh |-> acKwh,
         totalKwh |-> totalKwh, totalCost |-> totalKwh * costPerKwhCents,
         hoursEmpty |-> hoursEmpty]

\* calculateEnergySavings, in Wh; totalCost in thousandths of a cent
calculateEnergySavings(sensors) ==
    LET lightsKwh == IF sensors.ambient_light > LightThreshold
                     THEN LIGHTS_POWER * hoursEmpty ELSE 0
        fanKwh    == IF sensors.temperature > FanThreshold
                     THEN FAN_POWER * hoursEmpty ELSE 0
        acKwh     == IF sensors.temperature > AcThreshold
                     THEN AC_POWER * hoursEmpty ELSE 0
        totalKwh  == lightsKwh + fanKwh + acKwh
    IN  [made |-> TRUE, lightsKwh |-> lightsKwh, fanKwh |-> fanKwh, acKwh |-> acKwh,
         totalKwh |-> totalKwh, totalCost |-> totalKwh * costPerKwhCents,
         hoursEmpty |-> hoursEmpty]

NoSummary ==
    [set |-> FALSE, lightsSavings |-> 0, fanSavings |-> 0, acSavings |-> 0,
     totalSavings |-> 0, totalCost |-> 0, monthlySavings |-> 0, monthlyCost |-> 0,
     annualSavings |-> 0, annualCost |-> 0, monthlyWh |-> 0, annualWh |-> 0]

\* Mutant: the monthly projection is made over the days of a year
displayEnergySummaryYearly(savings) ==
    LET dailySavingsPerRoom == savings.totalKwh * predictionsPerDay * optimizationRateTenths
        monthlySavings == dailySavingsPerRoom * roomsCount * daysPerYear
        annualSavings == dailySavingsPerRoom * roomsCount * daysPerYear
    IN  [set |-> TRUE,
         lightsSavings |-> ToFixed2(savings.lightsKwh, 1000),
         fanSavings |-> ToFixed2(savings.fanKwh, 1000),
         acSavings |-> ToFixed2(savings.acKwh, 1000),
         totalSavings |-> ToFixed2(savings.totalKwh, 1000),
         totalCost |-> ToFixed2Cost(savings.totalCost),
         monthlySavings |-> ToFixed0(monthlySavings, 10000),
         monthlyCost |-> ToFixed0((monthlySavings \div 100) * costPerKwhCents, 10000),
         annualSavings |-> ToFixed0(annualSavings, 10000),
         annualCost |-> ToFixed0((annualSavings \div 100) * costPerKwhCents, 10000),
         monthlyWh |-> monthlySavings \div 10,
         annualWh |-> annualSavings \div 10]

\* displayEnergySummary: the texts of the summary panel.  dailySavingsPerRoom is
\* kept in tenths of a Wh; monthlyWh and annualWh are the projections before
\* formatting, in Wh.
displayEnergySummary(savings) ==
    LET dailySavingsPerRoom == savings.totalKwh * predictionsPerDay * optimizationRateTenths
        monthlySavings == dailySavingsPerRoom * roomsCount * daysPerMonth
        annualSavings == dailySavingsPerRoom * roomsCount * daysPerYear
    IN  [set |-> TRUE,
         lightsSavings |-> ToFixed2(savings.lightsKwh, 1000),
         fanSavings |-> ToFixed2(savings.fanKwh, 1000),
         acSavings |-> ToFixed2(savings.acKwh, 1000),
         totalSavings |-> ToFixed2(savings.totalKwh, 1000),
         totalCost |-> ToFixed2Cost(savings.totalCost),
         monthlySavings |-> ToFixed0(monthlySavings, 10000),
         monthlyCost |-> ToFixed0((monthlySavings \div 100) * costPerKwhCents, 10000),
         annualSavings |-> ToFixed0(annualSavings, 10000),
         annualCost |-> ToFixed0((annualSavings \div 100) * costPerKwhCents, 10000),
         monthlyWh |-> monthlySavings \div 10,
         annualWh |-> annualSavings \div 10]

NoNudge == [kind |-> "none", savingsText |-> 0]

\* Mutant: the estimate is computed whatever the prediction
generateEnergyNudgeAlways(prediction, sensors, oldSummary) ==
    LET isOccupied == prediction = 1
        potentialSavings == calculateEnergySavings(sensors)
    IN  IF isOccupied
        THEN [energyNudge |-> [kind |-> "Room In Use", savingsText |-> 0],
              summary |-> oldSummary,
              summaryVisible |-> FALSE,
              estimate |-> potentialSavings]
        ELSE [energyNudge |-> [kind |-> "Energy Saving Opportunity",
                               savingsText |-> ToFixed2(potentialSavings.totalKwh, 1000)],
              summary |-> displayEnergySummary(potentialSavings),
              summaryVisible |-> TRUE,
              estimate |-> potentialSavings]

\* Mutant: the occupied branch leaves the summary panel as it was
generateEnergyNudgeLeavesSummary(prediction, sensors, oldSummary) ==
    LET isOccupied == prediction = 1
    IN  IF isOccupied
        THEN [energyNudge |-> [kind |-> "Room In Use", savingsText |-> 0],
              summary |-> oldSummary,
              summaryVisible |-> oldSummary.set,
              estimate |-> NoEstimate]
        ELSE LET potentialSavings == calculateEnergySavings(sensors)
             IN  [energyNudge |-> [kind |-> "Energy Saving Opportunity",
                                   savingsText |-> ToFixed2(potentialSavings.totalKwh, 1000)],
                  summary |-> displayEnergySummary(potentialSavings),
                  summaryVisible |-> TRUE,
                  estimate |-> potentialSavings]

\* generateEnergyNudge: the nudge card, the summary panel and its visibility;
\* estimate is what calculateEnergySavings returned, NoEstimate when it was not called
generateEnergyNudge(prediction, sensors, oldSummary) ==
    LET isOccupied == prediction = 1
    IN  IF isOccupied
        THEN [energyNudge |-> [kind |-> "Room In Use", savingsText |-> 0],
              summary |-> oldSummary,
              summaryVisible |-> FALSE,
              estimate |-> NoEstimate]
        ELSE LET potentialSavings == calculateEnergySavings(sensors)
             IN  [energyNudge |-> [kind |-> "Energy Saving Opportunity",
                                   savingsText |-> ToFixed2(potentialSavings.totalKwh, 1000)],
                  summary |-> displayEnergySummary(potentialSavings),
                  summaryVisible |-> TRUE,
                  estimate |-> potentialSavings]

---------------------------------------------------------------------------
(* The result panels *)

NoResults ==
    [statusText |-> "none", statusClass |-> "none", confidence |-> 0,
     metricsVisible |-> FALSE, inferenceTimeText |-> 0,
     avgLatencyText |-> 0, totalPredictionsText |-> 0,
     energyNudge |-> NoNudge, summaryVisible |-> FALSE, summary |-> NoSummary]

\* Mutant: the latency overwrites the running total instead of adding to it
updatePerformanceMetricsOverwrites(latency, count, total) ==
    LET newCount == count + 1
        newTotal == latency
    IN  [predictionCount |-> newCount,
         totalLatency |-> newTotal,
         avgLatencyText |-> ToFixed2(newTotal, newCount),
         totalPredictionsText |-> newCount]

\* updatePerformanceMetrics: the two counters and the texts derived from them
updatePerformanceMetrics(latency, count, total) ==
    LET newCount == count + 1
        newTotal == total + latency
    IN  [predictionCount |-> newCount,
         totalLatency |-> newTotal,
         avgLatencyText |-> ToFixed2(newTotal, newCount),
         totalPredictionsText |-> newCount]

\* Mutant: the status shows the two labels the wrong way round
displayResultsSwapped(label, latency, w, count, total, old) ==
    LET isOccupied == label = 1
        metrics == updatePerformanceMetrics(latency, count, total)
        nudge == generateEnergyNudge(label, getSensorValues(w), old.summary)
    IN  [results |->
            [statusText |-> IF isOccupied THEN "EMPTY" ELSE "OCCUPIED",
             statusClass |-> IF isOccupied THEN "empty" ELSE "occupied",
             confidence |-> DefaultConfidence,
             metricsVisible |-> TRUE,
             inferenceTimeText |-> ToFixed2(latency, 1),
             avgLatencyText |-> metrics.avgLatencyText,
             totalPredictionsText |-> metrics.totalPredictionsText,
             energyNudge |-> nudge.energyNudge,
             summaryVisible |-> nudge.summaryVisible,
             summary |-> nudge.summary],
         predictionCount |-> metrics.predictionCount,
         totalLatency |-> metrics.totalLatency,
         estimate |-> nudge.estimate]

\* displayResults(label, null, latency): probability is always null (line 297), so
\* confidence stays at its default.  w are the widgets as they stand when the
\* result is displayed: line 367 reads them again.
displayResults(label, latency, w, count, total, old) ==
    LET isOccupied == label = 1
        metrics == updatePerformanceMetrics(latency, count, total)
        nudge == generateEnergyNudge(label, getSensorValues(w), old.summary)
    IN  [results |->
            [statusText |-> IF isOccupied THEN "OCCUPIED" ELSE "EMPTY",
             statusClass |-> IF isOccupied THEN "occupied" ELSE "empty",
             confidence |-> DefaultConfidence,
             metricsVisible |-> TRUE,
             inferenceTimeText |-> ToFixed2(latency, 1),
             avgLatencyText |-> metrics.avgLatencyText,
             totalPredictionsText |-> metrics.totalPredictionsText,
             energyNudge |-> nudge.energyNudge,
             summaryVisible |-> nudge.summaryVisible,
             summary |-> nudge.summary],
         predictionCount |-> metrics.predictionCount,
         totalLatency |-> metrics.totalLatency,
         estimate |-> nudge.estimate]

NoLast ==
    [done |-> FALSE, label |-> 0, latency |-> 0, estimate |-> NoEstimate]

---------------------------------------------------------------------------
(* Initial state: the script has been loaded and init() has been called *)

\* index.html is not among the sources: the page is taken to open with the
\* widgets on this reading, the labels agreeing with them, the auto-demo button
\* and the panels hidden, and the badge not ready.
InitialWidgets == {PresetWidgets("morning")}

Init ==
    /\ initPc = "loadModelInfo"
    /\ session = FALSE
    /\ modelInfo = "null"
    /\ modelSizeText = "unset"
    /\ modelStatus = [text |-> "initial", ready |-> FALSE]
    /\ listeners = FALSE
    /\ autoDemoBtn = "none"
    /\ demoBanner = "none"
    /\ demoScenario = 0
    /\ widgets \in InitialWidgets
    /\ sensorDisplay = UpdateSensorDisplays(widgets)
    /\ timeouts = <<>>
    /\ inflight = <<>>
    /\ inferenceTime = 0
    /\ predictionCount = 0
    /\ totalLatency = 0
    /\ results = NoResults
    /\ alertMsg = "none"
    /\ intervals = {}
    /\ autoDemoInterval = NoTimer
    /\ currentDemoStep = 0
    /\ firstTickPending = FALSE
    /\ last = NoLast
    /\ completedOK = 0
    /\ latencySum = 0
    /\ triggersLeft = 0
    /\ createAttempts = 0
    /\ manualInputs = 0

---------------------------------------------------------------------------
(* init(): loadModelInfo, loadModel, then the synchronous rest *)

pageVars == <<initPc, session, modelInfo, modelSizeText, modelStatus, listeners, autoDemoBtn>>
playerVars == <<demoBanner, demoScenario, intervals, autoDemoInterval, currentDemoStep,
                firstTickPending>>
metricVars == <<inferenceTime, predictionCount, totalLatency, results, last,
                completedOK, latencySum>>

\* updateModelStatus(text, ready)
updateModelStatus(text, ready) == [text |-> text, ready |-> ready]

\* Mutant: a failure of the metadata load ends init
LoadModelInfoSettlesFatal(outcome) ==
    /\ initPc = "loadModelInfo"
    /\ modelInfo' = outcome
    /\ modelSizeText' = IF outcome = "ok" THEN "shown" ELSE modelSizeText
    /\ IF outcome = "ok"
       THEN /\ modelStatus' = updateModelStatus("Loading model...", FALSE)
            /\ initPc' = "loadModel"
            /\ createAttempts' = createAttempts + 1
       ELSE /\ modelStatus' = updateModelStatus("Error loading model", FALSE)
            /\ initPc' = "failed"
            /\ UNCHANGED createAttempts
    /\ UNCHANGED <<session, listeners, autoDemoBtn, widgets, sensorDisplay, timeouts,
                   inflight, alertMsg, triggersLeft, manualInputs>>
    /\ UNCHANGED playerVars
    /\ UNCHANGED metricVars

\* Mutant: init registers the handlers before it awaits the model
LoadModelInfoSettlesRegisters(outcome) ==
    /\ initPc = "loadModelInfo"
    /\ modelInfo' = outcome
    /\ modelSizeText' = IF outcome = "ok" THEN "shown" ELSE modelSizeText
    /\ modelStatus' = updateModelStatus("Loading model...", FALSE)
    /\ initPc' = "loadModel"
    /\ createAttempts' = createAttempts + 1
    /\ listeners' = TRUE
    /\ UNCHANGED <<session, autoDemoBtn, widgets, sensorDisplay, timeouts,
                   inflight, alertMsg, triggersLeft, manualInputs>>
    /\ UNCHANGED playerVars
    /\ UNCHANGED metricVars

\* loadModelInfo settles: the document arrives whole ("ok"), arrives without
\* model_size_kb ("nosize": modelInfo is assigned, toFixed then throws) or the fetch
\* or the parse fails ("null").  Every failure is caught inside loadModelInfo, so
\* init goes on to loadModel, which sets the badge before its first await.
LoadModelInfoSettles(outcome) ==
    /\ initPc = "loadModelInfo"
    /\ modelInfo' = outcome
    /\ modelSizeText' = IF outcome = "ok" THEN "shown" ELSE modelSizeText
    /\ modelStatus' = updateModelStatus("Loading model...", FALSE)
    /\ initPc' = "loadModel"
    /\ createAttempts' = createAttempts + 1
    /\ UNCHANGED <<session, listeners, autoDemoBtn, widgets, sensorDisplay, timeouts,
                   inflight, alertMsg, triggersLeft, manualInputs>>
    /\ UNCHANGED playerVars
    /\ UNCHANGED metricVars

\* InferenceSession.create resolves: loadModel finishes, and init runs
\* setupEventListeners, updateSensorDisplays and shows the auto-demo button
\* without suspending again.
LoadModelResolves ==
    /\ initPc = "loadModel"
    /\ session' = TRUE
    /\ modelStatus' = updateModelStatus("Model Ready", TRUE)
    /\ listeners' = TRUE
    /\ sensorDisplay' = UpdateSensorDisplays(widgets)
    /\ autoDemoBtn' = "block"
    /\ initPc' = "ready"
    /\ UNCHANGED <<modelInfo, modelSizeText, widgets, timeouts, inflight, alertMsg,
                   triggersLeft, createAttempts, manualInputs>>
    /\ UNCHANGED playerVars
    /\ UNCHANGED metricVars

\* Mutant: loadModel swallows the failure as loadModelInfo does, and init goes on
LoadModelRejectsSwallowed ==
    /\ initPc = "loadModel"
    /\ listeners' = TRUE
    /\ sensorDisplay' = UpdateSensorDisplays(widgets)
    /\ autoDemoBtn' = "block"
    /\ initPc' = "failed"
    /\ UNCHANGED <<session, modelInfo, modelSizeText, modelStatus, widgets, timeouts,
                   inflight, alertMsg, triggersLeft, createAttempts, manualInputs>>
    /\ UNCHANGED playerVars
    /\ UNCHANGED metricVars

\* InferenceSession.create rejects: loadModel rethrows and init's catch sets the badge
LoadModelRejects ==
    /\ initPc = "loadModel"
    /\ modelStatus' = updateModelStatus("Error loading model", FALSE)
    /\ initPc' = "failed"
    /\ UNCHANGED <<session, modelInfo, modelSizeText, listeners, autoDemoBtn, widgets,
                   sensorDisplay, timeouts, inflight, alertMsg, triggersLeft,
                   createAttempts, manualInputs>>
    /\ UNCHANGED playerVars
    /\ UNCHANGED metricVars

---------------------------------------------------------------------------
(* The sensor widgets and the presets *)

\* The values the user gives each of the six widgets by hand: the sliders are
\* moved to 8 PM, Saturday, 600 lux and 26.5 C, the toggles are switched on or off
ManualValues ==
    [hour |-> {20}, day |-> {5}, light |-> {600}, temp |-> {265},
     pir |-> BOOLEAN, phone |-> BOOLEAN]

\* One input event on a slider or one change event on a toggle: the browser has
\* changed the widget, whether or not the page has registered its listeners yet,
\* and the listener (lines 180-185), once registered, refreshes the four labels
SensorInput(id, v) ==
    /\ manualInputs < MaxManual
    /\ manualInputs' = manualInputs + 1
    /\ widgets[id] # v
    /\ widgets' = [widgets EXCEPT ![id] = v]
    /\ sensorDisplay' = IF listeners THEN UpdateSensorDisplays(widgets')
                                    ELSE sensorDisplay
    /\ UNCHANGED <<timeouts, inflight, alertMsg, triggersLeft, createAttempts>>
    /\ UNCHANGED pageVars
    /\ UNCHANGED playerVars
    /\ UNCHANGED metricVars

\* The runs of runPrediction that are scheduled or awaiting the engine
Pending == Len(timeouts) + Len(inflight)

\* A pending setTimeout(runPrediction, 500), tagged with who scheduled it and,
\* for the player, with the step number of the scenario that did (0 for a preset
\* button).  All have the same delay, so they fire in the order they were
\* scheduled.
Timeout(src, step) == [src |-> src, step |-> step]

\* indexOf(presetName) + 1 in demoScenarios
StepNumber(presetName) ==
    CHOOSE k \in 1..Len(demoScenarios) : demoScenarios[k] = presetName

\* Mutant: the temperature widget is left as it was
applyPresetKeepsTemp(presetName, src) ==
    /\ widgets' = [PresetWidgets(presetName) EXCEPT !.temp = widgets.temp]
    /\ sensorDisplay' = UpdateSensorDisplays(widgets')
    /\ timeouts' = Append(timeouts, Timeout(src, IF src = "player"
                                                 THEN StepNumber(presetName) ELSE 0))
    /\ triggersLeft' = triggersLeft + 1

\* applyPreset(presetName) for a name of presets: the six widgets, the labels,
\* and one runPrediction 500 ms later
applyPreset(presetName, src) ==
    /\ widgets' = PresetWidgets(presetName)
    /\ sensorDisplay' = UpdateSensorDisplays(widgets')
    /\ timeouts' = Append(timeouts, Timeout(src, IF src = "player"
                                                 THEN StepNumber(presetName) ELSE 0))
    /\ triggersLeft' = triggersLeft + 1

\* A click on a preset button
ClickPreset(presetName) ==
    /\ listeners
    /\ Pending < MaxPending
    /\ applyPreset(presetName, "manual")
    /\ UNCHANGED <<inflight, alertMsg, createAttempts, manualInputs>>
    /\ UNCHANGED pageVars
    /\ UNCHANGED playerVars
    /\ UNCHANGED metricVars

---------------------------------------------------------------------------
(* The scenario player *)

\* runDemoScenario(presetName): the banner text, then applyPreset
runDemoScenario(presetName) ==
    /\ demoScenario' = StepNumber(presetName)
    /\ applyPreset(presetName, "player")

\* The handle setInterval returns: one no live timer has
NewHandle == 1 + Cardinality(intervals)

\* Mutant: currentDemoStep is not advanced past the scenario run at once
startAutoDemoNoAdvance ==
    /\ demoBanner' = "block"
    /\ autoDemoBtn' = "none"
    /\ runDemoScenario(demoScenarios[0 + 1])
    /\ currentDemoStep' = 0
    /\ intervals' = intervals \cup {NewHandle}
    /\ autoDemoInterval' = NewHandle
    /\ firstTickPending' = TRUE

\* Mutant: the start button is left visible
startAutoDemoKeepsButton ==
    /\ demoBanner' = "block"
    /\ autoDemoBtn' = autoDemoBtn
    /\ runDemoScenario(demoScenarios[0 + 1])
    /\ currentDemoStep' = 0 + 1
    /\ intervals' = intervals \cup {NewHandle}
    /\ autoDemoInterval' = NewHandle
    /\ firstTickPending' = TRUE

\* startAutoDemo: reachable only through #autoDemoBtn, which it hides.  The
\* array index currentDemoStep is 0-based in the code and 1-based here.
startAutoDemo ==
    /\ demoBanner' = "block"
    /\ autoDemoBtn' = "none"
    /\ runDemoScenario(demoScenarios[0 + 1])
    /\ currentDemoStep' = 0 + 1
    /\ intervals' = intervals \cup {NewHandle}
    /\ autoDemoInterval' = NewHandle
    /\ firstTickPending' = TRUE

ClickAutoDemo ==
    /\ listeners
    /\ autoDemoBtn = "block"
    /\ Pending < MaxPending
    /\ startAutoDemo
    /\ UNCHANGED <<initPc, session, modelInfo, modelSizeText, modelStatus, listeners,
                   inflight, alertMsg, createAttempts, manualInputs>>
    /\ UNCHANGED metricVars

\* Mutant: looping back only resets the step, so one tick applies nothing
intervalCallbackSkipsTick ==
    IF currentDemoStep < Len(demoScenarios)
    THEN /\ runDemoScenario(demoScenarios[currentDemoStep + 1])
         /\ currentDemoStep' = currentDemoStep + 1
    ELSE /\ currentDemoStep' = 0
         /\ UNCHANGED <<demoScenario, widgets, sensorDisplay, timeouts, triggersLeft>>

\* Mutant: the demo is over after the fourth scenario
intervalCallbackHalts ==
    IF currentDemoStep < Len(demoScenarios)
    THEN /\ runDemoScenario(demoScenarios[currentDemoStep + 1])
         /\ currentDemoStep' = currentDemoStep + 1
    ELSE UNCHANGED <<demoScenario, widgets, sensorDisplay, timeouts, triggersLeft,
                     currentDemoStep>>

\* The setInterval callback of lines 521-533
intervalCallback ==
    IF currentDemoStep < Len(demoScenarios)
    THEN /\ runDemoScenario(demoScenarios[currentDemoStep + 1])
         /\ currentDemoStep' = currentDemoStep + 1
    ELSE /\ runDemoScenario(demoScenarios[0 + 1])
         /\ currentDemoStep' = 0 + 1

\* A live interval timer fires, 7000 ms after the last player transition: the
\* 500 ms timeout that transition scheduled has fired by then, and with it every
\* timeout scheduled earlier.
IntervalTick(h) ==
    /\ h \in intervals
    /\ \A i \in 1..Len(timeouts) : timeouts[i].src # "player"
    /\ intervalCallback
    /\ firstTickPending' = FALSE
    /\ UNCHANGED <<demoBanner, intervals, autoDemoInterval, inflight, alertMsg,
                   createAttempts, manualInputs>>
    /\ UNCHANGED pageVars
    /\ UNCHANGED metricVars

\* Mutant: the handle is dropped and the timer is left running
stopAutoDemoNoClear ==
    /\ autoDemoInterval' = NoTimer
    /\ UNCHANGED intervals
    /\ demoBanner' = "none"
    /\ autoDemoBtn' = "block"
    /\ currentDemoStep' = 0

\* stopAutoDemo
stopAutoDemo ==
    /\ IF autoDemoInterval # NoTimer
       THEN /\ intervals' = intervals \ {autoDemoInterval}
            /\ autoDemoInterval' = NoTimer
       ELSE UNCHANGED <<intervals, autoDemoInterval>>
    /\ demoBanner' = "none"
    /\ autoDemoBtn' = "block"
    /\ currentDemoStep' = 0

\* Mutant: stopping also cancels the settle runs the player left pending
ClickStopDemoCancelsRuns ==
    /\ listeners
    /\ stopAutoDemo
    /\ firstTickPending' = FALSE
    /\ timeouts' = SelectSeq(timeouts, LAMBDA t : t.src # "player")
    /\ triggersLeft' = triggersLeft - (Len(timeouts) - Len(timeouts'))
    /\ UNCHANGED <<initPc, session, modelInfo, modelSizeText, modelStatus, listeners,
                   demoScenario, widgets, sensorDisplay, inflight, alertMsg,
                   createAttempts, manualInputs>>
    /\ UNCHANGED metricVars

ClickStopDemo ==
    /\ listeners
    /\ stopAutoDemo
    /\ firstTickPending' = FALSE
    /\ UNCHANGED <<initPc, session, modelInfo, modelSizeText, modelStatus, listeners,
                   demoScenario, widgets, sensorDisplay, timeouts, inflight, alertMsg,
                   triggersLeft, createAttempts, manualInputs>>
    /\ UNCHANGED metricVars

---------------------------------------------------------------------------
(* runPrediction *)

RemoveAt(q, i) == [j \in 1..(Len(q) - 1) |-> IF j < i THEN q[j] ELSE q[j + 1]]

\* Mutant: the guard on session is missing
runPredictionNoGuard ==
    /\ inflight' = Append(inflight, [input |-> InputArray(getSensorValues(widgets))])
    /\ UNCHANGED alertMsg

\* runPrediction up to its await: the guard on session, then the widgets are read
\* and the engine is called with the input tensor
runPrediction ==
    IF ~session
    THEN /\ alertMsg' = ModelNotLoadedAlert
         /\ UNCHANGED inflight
    ELSE /\ inflight' = Append(inflight, [input |-> InputArray(getSensorValues(widgets))])
         /\ UNCHANGED alertMsg

\* The invocations of session.run a step of runPrediction makes
EngineCallsMade == Len(inflight') - Len(inflight)

\* A click on the Predict button
ClickPredict ==
    /\ listeners
    /\ Pending < MaxPending
    /\ runPrediction
    /\ triggersLeft' = (triggersLeft + 1) - EngineCallsMade
    /\ UNCHANGED <<widgets, sensorDisplay, timeouts, createAttempts, manualInputs>>
    /\ UNCHANGED pageVars
    /\ UNCHANGED playerVars
    /\ UNCHANGED metricVars

\* The button of the nudge card (its inline onclick, line 407) exists while the
\* card of an empty room is shown
ClickNudgeButton ==
    /\ results.energyNudge.kind = "Energy Saving Opportunity"
    /\ alertMsg' = NudgeAlert
    /\ UNCHANGED <<widgets, sensorDisplay, timeouts, inflight, triggersLeft,
                   createAttempts, manualInputs>>
    /\ UNCHANGED pageVars
    /\ UNCHANGED playerVars
    /\ UNCHANGED metricVars

\* The oldest pending settle timeout fires
TimeoutFires ==
    /\ timeouts # <<>>
    /\ Len(inflight) < MaxPending
    /\ timeouts' = Tail(timeouts)
    /\ runPrediction
    /\ triggersLeft' = triggersLeft - EngineCallsMade
    /\ UNCHANGED <<widgets, sensorDisplay, createAttempts, manualInputs>>
    /\ UNCHANGED pageVars
    /\ UNCHANGED playerVars
    /\ UNCHANGED metricVars

\* Mutant: the result of a call is shown only when no call started after it is
\* still in flight
RunResolvesKeepsNewest(i, label, latency) ==
    /\ i \in 1..Len(inflight)
    /\ predictionCount < MaxPredictions
    /\ LET shown == displayResults(label, latency, widgets, predictionCount,
                                   totalLatency, results)
       IN  /\ inferenceTime' = latency
           /\ results' = IF i < Len(inflight) THEN results ELSE shown.results
           /\ predictionCount' = shown.predictionCount
           /\ totalLatency' = shown.totalLatency
           /\ last' = [done |-> TRUE, label |-> label, latency |-> latency,
                       estimate |-> shown.estimate]
    /\ completedOK' = completedOK + 1
    /\ latencySum' = latencySum + latency
    /\ inflight' = RemoveAt(inflight, i)
    /\ UNCHANGED <<widgets, sensorDisplay, timeouts, alertMsg, triggersLeft,
                   createAttempts, manualInputs>>
    /\ UNCHANGED pageVars
    /\ UNCHANGED playerVars

\* session.run resolves for the i-th call in flight with a label; latency ms have
\* passed since that call read performance.now().  Lines 294-307: displayResults.
RunResolves(i, label, latency) ==
    /\ i \in 1..Len(inflight)
    /\ predictionCount < MaxPredictions
    /\ LET shown == displayResults(label, latency, widgets, predictionCount,
                                   totalLatency, results)
       IN  /\ inferenceTime' = latency
           /\ results' = shown.results
           /\ predictionCount' = shown.predictionCount
           /\ totalLatency' = shown.totalLatency
           /\ last' = [done |-> TRUE, label |-> label, latency |-> latency,
                       estimate |-> shown.estimate]
    /\ completedOK' = completedOK + 1
    /\ latencySum' = latencySum + latency
    /\ inflight' = RemoveAt(inflight, i)
    /\ UNCHANGED <<widgets, sensorDisplay, timeouts, alertMsg, triggersLeft,
                   createAttempts, manualInputs>>
    /\ UNCHANGED pageVars
    /\ UNCHANGED playerVars

\* Mutant: a failed call is counted as a prediction
RunRejectsCounted(i) ==
    /\ i \in 1..Len(inflight)
    /\ alertMsg' = PredictionFailedAlert
    /\ inflight' = RemoveAt(inflight, i)
    /\ predictionCount' = predictionCount + 1
    /\ UNCHANGED <<widgets, sensorDisplay, timeouts, inferenceTime, totalLatency, results,
                   last, completedOK, latencySum, triggersLeft, createAttempts, manualInputs>>
    /\ UNCHANGED pageVars
    /\ UNCHANGED playerVars

\* Mutant: the catch runs the prediction again
RunRejectsRetries(i) ==
    /\ i \in 1..Len(inflight)
    /\ alertMsg' = PredictionFailedAlert
    /\ inflight' = Append(RemoveAt(inflight, i),
                          [input |-> InputArray(getSensorValues(widgets))])
    /\ triggersLeft' = triggersLeft - 1
    /\ UNCHANGED <<widgets, sensorDisplay, timeouts, createAttempts, manualInputs>>
    /\ UNCHANGED pageVars
    /\ UNCHANGED playerVars
    /\ UNCHANGED metricVars

\* session.run rejects for the i-th call in flight: the catch of lines 309-312
RunRejects(i) ==
    /\ i \in 1..Len(inflight)
    /\ alertMsg' = PredictionFailedAlert
    /\ inflight' = RemoveAt(inflight, i)
    /\ UNCHANGED <<widgets, sensorDisplay, timeouts, triggersLeft, createAttempts, manualInputs>>
    /\ UNCHANGED pageVars
    /\ UNCHANGED playerVars
    /\ UNCHANGED metricVars

---------------------------------------------------------------------------
(* The page *)

Labels == {0, 1}
\* The labels the classifier yields, and the latencies (ms) a call may take
Latencies == {1, 2}

\* session.run settles one of the calls in flight
EngineSettles ==
    \/ \E i \in 1..MaxPending, label \in Labels, latency \in Latencies :
          RunResolves(i, label, latency)
    \/ \E i \in 1..MaxPending : RunRejects(i)

Next ==
    \/ \E outcome \in {"ok", "nosize", "null"} : LoadModelInfoSettles(outcome)
    \/ LoadModelResolves
    \/ LoadModelRejects
    \/ \E id \in DOMAIN ManualValues : \E v \in ManualValues[id] : SensorInput(id, v)
    \/ ClickNudgeButton
    \/ \E n \in PresetNames : ClickPreset(n)
    \/ ClickAutoDemo
    \/ \E h \in intervals : IntervalTick(h)
    \/ ClickStopDemo
    \/ ClickPredict
    \/ TimeoutFires
    \/ EngineSettles

Spec == Init /\ [][Next]_vars

\* The event loop runs every timer callback that is due, and the engine settles
\* every call.  The last is needed for the bound only: with MaxPending calls in
\* flight the model holds the next settle run back, the page does not.
FairSpec ==
    /\ Spec
    /\ WF_vars(\E h \in intervals : IntervalTick(h))
    /\ WF_vars(TimeoutFires)
    /\ WF_vars(EngineSettles)

\* The page of a user who works the auto-demo buttons only, under the same
\* fairness: the specification of the player's liveness
PlayerNext ==
    \/ \E outcome \in {"ok", "nosize", "null"} : LoadModelInfoSettles(outcome)
    \/ LoadModelResolves
    \/ LoadModelRejects
    \/ ClickAutoDemo
    \/ \E h \in intervals : IntervalTick(h)
    \/ ClickStopDemo
    \/ TimeoutFires
    \/ EngineSettles

PlayerFairSpec ==
    /\ Init
    /\ [][PlayerNext]_vars
    /\ WF_vars(\E h \in intervals : IntervalTick(h))
    /\ WF_vars(TimeoutFires)
    /\ WF_vars(EngineSettles)

\* The classifier that does what runPrediction logs as expected (lines 270-271):
\* label 0 for PIR off, phone off and an hour of 2..8, label 1 for PIR on, phone on
\* and an hour of 9..20, and any label for another input
StubLabels(input) ==
    LET hour == input[1]
        pir == input[4].m
        phone == input[5].m
    IN  IF pir = 0 /\ phone = 0 /\ hour.k = 0 /\ hour.m \in 2..8 THEN {0}
        ELSE IF pir = 1 /\ phone = 1 /\ hour.k = 0 /\ hour.m \in 9..20 THEN {1}
        ELSE Labels

\* session.run settles one of the calls in flight, with that classifier
StubSettles ==
    \/ \E i \in 1..Len(inflight), latency \in Latencies :
          \E label \in StubLabels(inflight[i].input) : RunResolves(i, label, latency)
    \/ \E i \in 1..MaxPending : RunRejects(i)

\* The page with that classifier and a user who works the preset buttons and the
\* Predict button
StubNext ==
    \/ \E outcome \in {"ok", "nosize", "null"} : LoadModelInfoSettles(outcome)
    \/ LoadModelResolves
    \/ LoadModelRejects
    \/ \E n \in PresetNames : ClickPreset(n)
    \/ ClickPredict
    \/ TimeoutFires
    \/ StubSettles

StubSpec == Init /\ [][StubNext]_vars

\* runPrediction is a global function of the page's script: here something other
\* than the registered handlers (the console, an inline handler) calls it while
\* session is still null
CallBeforeLoad ==
    /\ ~session
    /\ runPrediction
    /\ UNCHANGED <<widgets, sensorDisplay, timeouts, triggersLeft, createAttempts, manualInputs>>
    /\ UNCHANGED pageVars
    /\ UNCHANGED playerVars
    /\ UNCHANGED metricVars

\* The page with such calls, and a user who works the Predict button only
ConsoleNext ==
    \/ \E outcome \in {"ok", "nosize", "null"} : LoadModelInfoSettles(outcome)
    \/ LoadModelResolves
    \/ LoadModelRejects
    \/ CallBeforeLoad
    \/ ClickPredict
    \/ EngineSettles

ConsoleSpec == Init /\ [][ConsoleNext]_vars

\* The page of a user who works the preset buttons and the auto-demo buttons and
\* leaves the sliders, the toggles and the Predict button alone
PresetNext ==
    \/ \E outcome \in {"ok", "nosize", "null"} : LoadModelInfoSettles(outcome)
    \/ LoadModelResolves
    \/ LoadModelRejects
    \/ \E n \in PresetNames : ClickPreset(n)
    \/ ClickAutoDemo
    \/ \E h \in intervals : IntervalTick(h)
    \/ ClickStopDemo
    \/ TimeoutFires
    \/ EngineSettles

PresetSpec == Init /\ [][PresetNext]_vars

---------------------------------------------------------------------------
(* The energy estimator on its own: the page is ready, the widgets stand on  *)
(* any reading of the ranges below, and the EMPTY branch of                  *)
(* generateEnergyNudge is applied to the reading                             *)

LightValues == {0, 15, 200, 299, 300, 301, 400, 550, 600, 1000}
TempValues == {200, 205, 230} \cup (235..265)

EstimatorInit ==
    /\ initPc = "ready"
    /\ session = TRUE
    /\ modelInfo = "ok"
    /\ modelSizeText = "shown"
    /\ modelStatus = updateModelStatus("Model Ready", TRUE)
    /\ listeners = TRUE
    /\ autoDemoBtn = "block"
    /\ demoBanner = "none"
    /\ demoScenario = 0
    /\ \E l \in LightValues, t \in TempValues :
          widgets = [hour |-> 2, day |-> 1, light |-> l, temp |-> t,
                     pir |-> FALSE, phone |-> FALSE]
    /\ sensorDisplay = UpdateSensorDisplays(widgets)
    /\ timeouts = <<>>
    /\ inflight = <<>>
    /\ inferenceTime = 0
    /\ predictionCount = 0
    /\ totalLatency = 0
    /\ results = NoResults
    /\ alertMsg = "none"
    /\ intervals = {}
    /\ autoDemoInterval = NoTimer
    /\ currentDemoStep = 0
    /\ firstTickPending = FALSE
    /\ last = NoLast
    /\ completedOK = 0
    /\ latencySum = 0
    /\ triggersLeft = 0
    /\ createAttempts = 1
    /\ manualInputs = 0

EstimateReading ==
    /\ ~last.estimate.made
    /\ LET nudge == generateEnergyNudge(0, getSensorValues(widgets), results.summary)
       IN  /\ results' = [results EXCEPT !.energyNudge = nudge.energyNudge,
                                         !.summary = nudge.summary,
                                         !.summaryVisible = nudge.summaryVisible]
           /\ last' = [last EXCEPT !.estimate = nudge.estimate]
    /\ UNCHANGED <<widgets, sensorDisplay, timeouts, inflight, alertMsg, inferenceTime,
                   predictionCount, totalLatency, completedOK, latencySum, triggersLeft,
                   createAttempts, manualInputs>>
    /\ UNCHANGED pageVars
    /\ UNCHANGED playerVars

EstimatorSpec == EstimatorInit /\ [][EstimateReading]_vars

---------------------------------------------------------------------------
(* The sensor reader on its own: the page is ready, the widgets stand on any   *)
(* reading of the ranges below, values outside the sliders' ranges among      *)
(* them, and Predict is clicked                                               *)

HourValues == {-1, 0, 3, 14, 23, 30}
DayValues == {0, 6, 9}
LuxValues == {0, 10, 700, 100000}
DegreeValues == {-50, 200, 235, 260, 1000}

ReaderInit ==
    /\ initPc = "ready"
    /\ session = TRUE
    /\ modelInfo = "ok"
    /\ modelSizeText = "shown"
    /\ modelStatus = updateModelStatus("Model Ready", TRUE)
    /\ listeners = TRUE
    /\ autoDemoBtn = "block"
    /\ demoBanner = "none"
    /\ demoScenario = 0
    /\ \E h \in HourValues, d \in DayValues, l \in LuxValues, t \in DegreeValues,
          pir \in BOOLEAN, phone \in BOOLEAN :
          widgets = [hour |-> h, day |-> d, light |-> l, temp |-> t,
                     pir |-> pir, phone |-> phone]
    /\ sensorDisplay = UpdateSensorDisplays(widgets)
    /\ timeouts = <<>>
    /\ inflight = <<>>
    /\ inferenceTime = 0
    /\ predictionCount = 0
    /\ totalLatency = 0
    /\ results = NoResults
    /\ alertMsg = "none"
    /\ intervals = {}
    /\ autoDemoInterval = NoTimer
    /\ currentDemoStep = 0
    /\ firstTickPending = FALSE
    /\ last = NoLast
    /\ completedOK = 0
    /\ latencySum = 0
    /\ triggersLeft = 0
    /\ createAttempts = 1
    /\ manualInputs = 0

ReaderSpec == ReaderInit /\ [][ClickPredict]_vars

---------------------------------------------------------------------------
(* Steps, as seen on the state *)

\* The player applies a preset: runDemoScenario schedules a player settle run
PlayerApplies ==
    /\ Len(timeouts') = Len(timeouts) + 1
    /\ timeouts'[Len(timeouts')].src = "player"

\* startAutoDemo ran: a new interval timer is live and held
TimerStarted == intervals' # intervals /\ autoDemoInterval' \in intervals' \ intervals

\* A call left flight and no prediction completed: session.run failed
RunFailed == Len(inflight') < Len(inflight) /\ completedOK' = completedOK

\* A call left flight and a prediction completed
RunCompleted == Len(inflight') < Len(inflight) /\ completedOK' = completedOK + 1

EmptyInput == InputArray(getSensorValues(PresetWidgets("empty")))

\* A preset was applied: one more settle run is pending
PresetApplied == Len(timeouts') = Len(timeouts) + 1

\* The settle run the player scheduled starts: the oldest timeout, a player's,
\* fires and runPrediction calls the engine
PlayerRunStarts ==
    /\ timeouts # <<>>
    /\ timeouts[1].src = "player"
    /\ timeouts' = Tail(timeouts)
    /\ Len(inflight') = Len(inflight) + 1

\* No preset button was clicked since the oldest pending settle run was scheduled
NoClickSince == \A j \in 2..Len(timeouts) : timeouts[j].src # "manual"

\* The input vector of a preset's reading
PresetInput(n) == InputArray(getSensorValues(PresetWidgets(n)))

\* The label documented for each preset
DocumentedStatus ==
    [n \in PresetNames |-> IF n \in {"empty", "weekend"} THEN "EMPTY" ELSE "OCCUPIED"]

\* The status text of a raw label
StatusOf(label) == IF label = 1 THEN "OCCUPIED" ELSE "EMPTY"

RECURSIVE Pow2(_)
Pow2(n) == IF n = 0 THEN 1 ELSE 2 * Pow2(n - 1)

\* The float f is the number num/den
IsNumber(f, num, den) == f.m * den = num * Pow2(f.k)

---------------------------------------------------------------------------
(* Claims *)

\* C1: while the player runs, the presets it applies follow the cycle empty,
\* morning, evening, weekend, empty, ...: the preset applied by startAutoDemo is
\* empty (step 1 of 4), and the preset applied by a tick is the successor, modulo
\* 4, of the preset the player applied last; every tick applies one.
C1_PlayerCycle ==
    [][/\ (PlayerApplies /\ TimerStarted) =>
            /\ demoScenario' = 1
            /\ widgets' = PresetWidgets("empty")
       /\ (PlayerApplies /\ ~TimerStarted) =>
            /\ demoScenario' = (demoScenario % 4) + 1
            /\ widgets' = PresetWidgets(demoScenarios[(demoScenario % 4) + 1])
       /\ (\E h \in intervals : IntervalTick(h)) => PlayerApplies]_vars

\* The player went round: after weekend a tick applied empty again
C1_Witness ==
    /\ autoDemoInterval # NoTimer
    /\ ~firstTickPending
    /\ demoScenario = 1
    /\ widgets = PresetWidgets("empty")

\* C2: every startAutoDemo, whatever came before, writes the empty preset into the
\* widgets and their labels before it returns, and the first tick after it
\* applies morning.
C2_StartAppliesEmpty ==
    [][/\ TimerStarted =>
            /\ PlayerApplies
            /\ widgets' = PresetWidgets("empty")
            /\ sensorDisplay' = UpdateSensorDisplays(PresetWidgets("empty"))
            /\ firstTickPending'
       /\ (firstTickPending /\ PlayerApplies /\ ~TimerStarted) =>
            /\ widgets' = PresetWidgets("morning")
            /\ demoScenario' = 2]_vars

\* The player was stopped and started again while the settle run of the earlier
\* start was still pending
C2_Witness ==
    /\ firstTickPending
    /\ widgets = PresetWidgets("empty")
    /\ Len(timeouts) = 2
    /\ timeouts[1].src = "player"
    /\ timeouts[2].src = "player"

\* C3: stopAutoDemo leaves no interval timer live, autoDemoInterval null and
\* currentDemoStep 0; and while autoDemoInterval is null the player applies no
\* preset except by startAutoDemo.
C3_StopCancels ==
    [][/\ (autoDemoInterval # NoTimer /\ autoDemoInterval' = NoTimer) =>
            /\ intervals' = {}
            /\ currentDemoStep' = 0
       /\ (autoDemoInterval = NoTimer /\ ~TimerStarted) =>
            /\ ~PlayerApplies
            /\ demoScenario' = demoScenario
            /\ autoDemoInterval' = NoTimer
            /\ currentDemoStep' = 0]_vars

\* The player was stopped after it had reached evening
C3_Witness ==
    /\ autoDemoInterval = NoTimer
    /\ intervals = {}
    /\ currentDemoStep = 0
    /\ demoScenario = 3
    /\ demoBanner = "none"

\* C4: when the player is started and from then on never stopped, each of the
\* four presets is applied again and again (under PlayerFairSpec).
C4_CycleNeverHalts ==
    (<>[](autoDemoInterval # NoTimer)) =>
        /\ []<>(demoScenario = 1)
        /\ []<>(demoScenario = 2)
        /\ []<>(demoScenario = 3)
        /\ []<>(demoScenario = 4)

\* The player is past the fourth scenario: it has wrapped once and gone on
C4_Witness ==
    /\ autoDemoInterval # NoTimer
    /\ ~firstTickPending
    /\ demoScenario = 2
    /\ currentDemoStep = 2
    /\ predictionCount = MaxPredictions

\* C5: for a completed prediction with raw label 1 calculateEnergySavings is not
\* called and no estimate exists; an estimate is made only for label 0.
C5_NoEstimateWhenOccupied ==
    last.done =>
        /\ (last.label = 1 => last.estimate = NoEstimate)
        /\ (last.estimate.made => last.label = 0)

\* An OCCUPIED prediction was displayed after an EMPTY one had filled the summary
C5_Witness ==
    /\ last.done
    /\ last.label = 1
    /\ results.statusText = "OCCUPIED"
    /\ results.summary.set

\* C6: the estimate's totalKwh is the sum of lightsKwh, fanKwh and acKwh (under
\* EstimatorSpec).
C6_TotalIsSum ==
    last.estimate.made =>
        last.estimate.totalKwh =
            last.estimate.lightsKwh + last.estimate.fanKwh + last.estimate.acKwh

\* An estimate with all three devices counted
C6_Witness ==
    /\ last.estimate.made
    /\ last.estimate.lightsKwh > 0
    /\ last.estimate.fanKwh > 0
    /\ last.estimate.acKwh > 0

\* C7: in Wh over the 2-hour window, lights are 20 above 300 lux and 0 otherwise,
\* the fan 150 above 24 C and 0 otherwise, the AC 1000 above 25 C and 0 otherwise;
\* 15 lux at 20 C gives 0, 0, 0, 0 and 400 lux at 26 C gives 20, 150, 1000, 1170
\* (under EstimatorSpec).
C7_EstimateTable ==
    last.estimate.made =>
        /\ last.estimate.lightsKwh = (IF widgets.light > 300 THEN 20 ELSE 0)
        /\ last.estimate.fanKwh = (IF widgets.temp > 240 THEN 150 ELSE 0)
        /\ last.estimate.acKwh = (IF widgets.temp > 250 THEN 1000 ELSE 0)
        /\ (widgets.light = 15 /\ widgets.temp = 200) =>
              /\ last.estimate.totalKwh = 0
              /\ results.summary.totalSavings = 0
        /\ (widgets.light = 400 /\ widgets.temp = 260) =>
              /\ last.estimate.totalKwh = 1170
              /\ results.summary.totalSavings = 117

\* The estimate at both thresholds: 300 lux and 25.0 C count the fan only
C7_Witness ==
    /\ last.estimate.made
    /\ widgets.light = 300
    /\ widgets.temp = 250
    /\ last.estimate.totalKwh = 150

\* C8 (as claimed): when a prediction made on the Late Night (Empty) preset
\* completes with label 0 while the widgets still hold that preset, the nudge shows
\* 1.17 kWh.
C8_LateNightShows117 ==
    [][(/\ RunCompleted
        /\ last'.label = 0
        /\ widgets = PresetWidgets("empty")
        /\ \A i \in 1..Len(inflight) : inflight[i].input = EmptyInput)
       => results'.energyNudge.savingsText = 117]_vars

\* C9: predictionCount is the number of predictions that completed successfully
\* and totalLatency the sum of their latencies; once one has completed, the
\* displayed count is that number and the displayed average is the sum divided by
\* it, to two decimals: a number of hundredths nearest to the quotient (either
\* neighbour when the quotient is half way, as toFixed rounds the double).
C9_MetricsExact ==
    /\ predictionCount = completedOK
    /\ totalLatency = latencySum
    /\ completedOK > 0 =>
          /\ results.totalPredictionsText = completedOK
          /\ 2 * completedOK * results.avgLatencyText <= 200 * latencySum + completedOK
          /\ 2 * completedOK * results.avgLatencyText >= 200 * latencySum - completedOK

\* Two predictions with different latencies completed and another one failed
C9_Witness ==
    /\ completedOK = 2
    /\ latencySum = 3
    /\ results.avgLatencyText = 150
    /\ alertMsg = PredictionFailedAlert

\* C10: when session.run fails, the alert is raised and predictionCount,
\* totalLatency and every result panel (status, metrics, nudge, summary and its
\* visibility) stay as they were.
C10_FailureChangesNothing ==
    [][RunFailed =>
         /\ alertMsg' = PredictionFailedAlert
         /\ predictionCount' = predictionCount
         /\ totalLatency' = totalLatency
         /\ inferenceTime' = inferenceTime
         /\ results' = results]_vars

\* A prediction failed on a page that shows an EMPTY result with its summary
C10_Witness ==
    /\ alertMsg = PredictionFailedAlert
    /\ predictionCount = 1
    /\ results.statusText = "EMPTY"
    /\ results.summaryVisible
    /\ inflight = <<>>

\* C11: no failure is retried: session.run has been invoked at most once for each
\* trigger that has fired (a Predict click, or a settle timeout that is no longer
\* pending), whether the invocations succeeded or failed, and
\* InferenceSession.create has been called at most once.
C11_NoRetry ==
    /\ triggersLeft >= Len(timeouts)
    /\ createAttempts <= 1

\* A prediction failed, nothing completed, and nothing is scheduled or in flight
C11_Witness ==
    /\ alertMsg = PredictionFailedAlert
    /\ completedOK = 0
    /\ timeouts = <<>>
    /\ inflight = <<>>
    /\ triggersLeft = 0

\* C12: a call of runPrediction while session is null raises the 'model not
\* loaded' alert and does nothing else: session.run is not invoked, the counters
\* and every result panel stay as they were (under ConsoleSpec, where the steps
\* taken while session is null, other than init's own, are such calls).
C12_RefusedWithoutSession ==
    [][(~session /\ initPc' = initPc) =>
         /\ alertMsg' = ModelNotLoadedAlert
         /\ inflight' = inflight
         /\ inflight = <<>>
         /\ triggersLeft' = triggersLeft
         /\ predictionCount' = predictionCount
         /\ totalLatency' = totalLatency
         /\ inferenceTime' = inferenceTime
         /\ results' = results]_vars

\* runPrediction was called while the model was still loading
C12_Witness ==
    /\ initPc = "loadModel"
    /\ ~session
    /\ alertMsg = ModelNotLoadedAlert
    /\ inflight = <<>>
    /\ results = NoResults

\* C13: when InferenceSession.create fails, the badge reads 'Error loading model'
\* and is not ready, and stays so in every later state; create is not called
\* again, session stays null and no prediction completes (under ConsoleSpec).
C13_LoadFailureIsFinal ==
    [][/\ initPc = "failed" => initPc' = "failed"
       /\ initPc' = "failed" =>
            /\ modelStatus' = updateModelStatus("Error loading model", FALSE)
            /\ ~session'
            /\ createAttempts' = 1
            /\ inflight' = <<>>
            /\ completedOK' = 0]_vars

\* After the failed load a call of runPrediction was refused
C13_Witness ==
    /\ initPc = "failed"
    /\ modelStatus.text = "Error loading model"
    /\ alertMsg = ModelNotLoadedAlert

\* C14: whatever the metadata load ends in, init goes on to create the session;
\* the size is shown exactly when the document arrived with model_size_kb; and
\* once the session exists the page is ready with its handlers registered.
C14_MetadataFailureNonFatal ==
    /\ initPc # "loadModelInfo" => createAttempts = 1
    /\ modelSizeText = "shown" <=> modelInfo = "ok"
    /\ session =>
          /\ initPc = "ready"
          /\ listeners
          /\ autoDemoBtn \in {"block", "none"}
          /\ modelStatus = updateModelStatus("Model Ready", TRUE)

\* The document lacked model_size_kb and the page went on to predict
C14_Witness ==
    /\ modelInfo = "nosize"
    /\ modelSizeText = "unset"
    /\ initPc = "ready"
    /\ listeners
    /\ completedOK = 1

\* C15: the vector handed to the classifier has six entries, in the order hour,
\* day of week, ambient light, PIR motion, phone presence, temperature; the two
\* toggles are 1 when checked and 0 otherwise, and the other four are the widget
\* values unchanged, those outside the sliders' ranges too (under ReaderSpec,
\* where the widgets stay as they were read).
C15_InputVector ==
    \A i \in 1..Len(inflight) :
        LET x == inflight[i].input
        IN  /\ Len(x) = 6
            /\ IsNumber(x[1], widgets.hour, 1)
            /\ IsNumber(x[2], widgets.day, 1)
            /\ IsNumber(x[3], widgets.light, 1)
            /\ IsNumber(x[4], IF widgets.pir THEN 1 ELSE 0, 1)
            /\ IsNumber(x[5], IF widgets.phone THEN 1 ELSE 0, 1)
            /\ IsNumber(x[6], widgets.temp, 10)

\* A reading with hour 30 and day 9, one toggle on, at 23.5 C was handed over
C15_Witness ==
    /\ Len(inflight) = 1
    /\ widgets.hour = 30
    /\ widgets.day = 9
    /\ widgets.pir
    /\ ~widgets.phone
    /\ widgets.temp = 235
    /\ inflight[1].input[1] = [m |-> 30, k |-> 0]
    /\ inflight[1].input[6] = [m |-> 47, k |-> 1]

\* C16: with the classifier of the documented expectation rule, a prediction
\* made on the reading of a preset displays the documented label: empty EMPTY,
\* morning OCCUPIED, evening OCCUPIED, weekend EMPTY; raw label 0 is shown as
\* EMPTY and raw label 1 as OCCUPIED (under StubSpec).
C16_PresetLabels ==
    [][RunCompleted =>
         /\ last'.label = 0 => results'.statusText = "EMPTY"
         /\ last'.label = 1 => results'.statusText = "OCCUPIED"
         /\ \A i \in 1..Len(inflight), n \in PresetNames :
               (inflight' = RemoveAt(inflight, i) /\ inflight[i].input = PresetInput(n))
                  => results'.statusText = DocumentedStatus[n]]_vars

\* The weekend preset was predicted after another preset, and shows EMPTY
C16_Witness ==
    /\ widgets = PresetWidgets("weekend")
    /\ results.statusText = "EMPTY"
    /\ results.statusClass = "empty"
    /\ predictionCount = 2
    /\ last.label = 0
    /\ timeouts = <<>>
    /\ inflight = <<>>

\* C17 (as claimed): when the settle run a player transition scheduled starts and
\* no preset button was clicked in between, the run reads the values of the preset
\* that scheduled it (under PresetSpec, where the sliders and toggles are not
\* touched).
C17_RunReadsItsPreset ==
    [][(PlayerRunStarts /\ NoClickSince) =>
         inflight'[Len(inflight')].input = PresetInput(demoScenarios[timeouts[1].step])]_vars

\* C17 (amended): every preset application, by the player or a preset button,
\* writes the six values of a preset into the widgets and schedules exactly one
\* run, starting none itself; the player writes the preset of its step; a tick
\* of the player comes only after the settle runs of the player's earlier
\* transitions have started; and when nothing was applied in between (no preset
\* button, no stop and restart of the player) the player's run reads the values
\* of the preset that scheduled it (under PresetSpec).
C17_ApplyThenOneRun ==
    [][/\ PresetApplied =>
            /\ \E n \in PresetNames :
                  /\ widgets' = PresetWidgets(n)
                  /\ sensorDisplay' = UpdateSensorDisplays(PresetWidgets(n))
            /\ \E t \in {Timeout("manual", 0)} \cup {Timeout("player", k) : k \in 1..4} :
                  timeouts' = Append(timeouts, t)
            /\ inflight' = inflight
       /\ PlayerApplies =>
            widgets' = PresetWidgets(demoScenarios[timeouts'[Len(timeouts')].step])
       /\ (PlayerApplies /\ ~TimerStarted) =>
            \A j \in 1..Len(timeouts) : timeouts[j].src # "player"
       /\ (PlayerRunStarts /\ Len(timeouts) = 1) =>
            inflight'[Len(inflight')].input =
                PresetInput(demoScenarios[timeouts[1].step])]_vars

\* The settle run of the player's evening transition has started on the evening
\* reading and the next tick has not come
C17_Witness ==
    /\ autoDemoInterval # NoTimer
    /\ demoScenario = 3
    /\ timeouts = <<>>
    /\ Len(inflight) = 1
    /\ inflight[1].input = PresetInput("evening")
    /\ widgets = PresetWidgets("evening")

\* C18: the campus projection of an estimate is, in Wh, 3600 times its total for
\* the month and 43800 times its total for the year (total * 4 * 0.3 * 100 rooms
\* * 30 or 365 days); a reading with a total no larger has projections no
\* larger; and both are 0 for a total of 0 (under EstimatorSpec).
C18_CampusProjection ==
    last.estimate.made =>
        /\ results.summary.monthlyWh = 3600 * last.estimate.totalKwh
        /\ results.summary.annualWh = 43800 * last.estimate.totalKwh
        /\ last.estimate.totalKwh = 0 =>
              /\ results.summary.monthlyWh = 0
              /\ results.summary.annualWh = 0
        /\ \A l \in LightValues, t \in TempValues :
              LET other == calculateEnergySavings([ambient_light |-> l, temperature |-> t])
                  shown == displayEnergySummary(other)
              IN  other.totalKwh <= last.estimate.totalKwh =>
                     /\ shown.monthlyWh <= results.summary.monthlyWh
                     /\ shown.annualWh <= results.summary.annualWh

\* The projection of the largest estimate: 4212 kWh a month, 51246 kWh a year
C18_Witness ==
    /\ last.estimate.made
    /\ last.estimate.totalKwh = 1170
    /\ results.summary.monthlyWh = 4212000
    /\ results.summary.annualWh = 51246000
    /\ results.summary.monthlySavings = 4212

\* C19: predictions are not serialised and the last completion wins: whichever
\* call in flight completes, the oldest or a later one, the display then shows
\* that call's result (the label of its own input, its latency, the new count),
\* and the display changes at no other step (under StubSpec, where the label of
\* a call tells which reading it was made on).
C19_LastCompletionWins ==
    [][/\ RunCompleted =>
            /\ \A i \in 1..Len(inflight) :
                  inflight' = RemoveAt(inflight, i) =>
                     results'.statusText \in
                        {StatusOf(l) : l \in StubLabels(inflight[i].input)}
            /\ results'.inferenceTimeText = 100 * inferenceTime'
            /\ results'.totalPredictionsText = predictionCount + 1
       /\ ~RunCompleted => results' = results]_vars

\* Two predictions ran and none failed; the later one was made on the morning
\* preset, which is still in the widgets, and the display shows EMPTY: the
\* earlier one, made on an EMPTY reading, completed after it and overwrote it
C19_Witness ==
    /\ widgets = PresetWidgets("morning")
    /\ results.statusText = "EMPTY"
    /\ predictionCount = 2
    /\ completedOK = 2
    /\ alertMsg = "none"
    /\ timeouts = <<>>
    /\ inflight = <<>>

\* C20: once a prediction has completed, the savings summary is visible exactly
\* when the prediction displayed last is EMPTY: with OCCUPIED the summary is
\* hidden and the card reads 'Room In Use'; with EMPTY the summary is shown,
\* filled from the estimate made for that prediction, and the card gives the
\* estimate's total.
C20_SummaryIffEmpty ==
    last.done =>
        /\ results.summaryVisible <=> results.statusText = "EMPTY"
        /\ results.statusText = "OCCUPIED" =>
              /\ ~results.summaryVisible
              /\ results.energyNudge = [kind |-> "Room In Use", savingsText |-> 0]
        /\ results.statusText = "EMPTY" =>
              /\ results.summaryVisible
              /\ last.estimate.made
              /\ results.summary = displayEnergySummary(last.estimate)
              /\ results.energyNudge =
                    [kind |-> "Energy Saving Opportunity",
                     savingsText |-> ToFixed2(last.estimate.totalKwh, 1000)]

\* An OCCUPIED prediction hid the summary that an EMPTY one had shown
C20_Witness ==
    /\ last.done
    /\ predictionCount = 2
    /\ results.statusText = "OCCUPIED"
    /\ ~results.summaryVisible
    /\ results.summary.set
    /\ results.energyNudge.kind = "Room In Use"

\* C21 (as claimed): when a prediction is displayed as EMPTY, the estimate shown
\* with it is the estimate of the reading the call was made on, whatever happened
\* to the widgets while the call was in flight (under StubSpec).
C21_EstimateOfPredictedReading ==
    [][(RunCompleted /\ results'.statusText = "EMPTY") =>
         \A i \in 1..Len(inflight), n \in PresetNames :
            (inflight' = RemoveAt(inflight, i) /\ inflight[i].input = PresetInput(n)) =>
               LET estimate == calculateEnergySavings(getSensorValues(PresetWidgets(n)))
               IN  /\ last'.estimate = estimate
                   /\ results'.summary = displayEnergySummary(estimate)
                   /\ results'.energyNudge.savingsText = ToFixed2(estimate.totalKwh, 1000)]_vars

\* C22: at most one interval timer is live at any time, and it is the one
\* autoDemoInterval holds, so no handle has been overwritten and no timer leaked;
\* whenever autoDemoInterval is null, as stopAutoDemo leaves it, no timer is
\* live; and the start button, the only way to startAutoDemo, is visible only
\* while autoDemoInterval is null and no timer is live.
C22_OneTimer ==
    /\ Cardinality(intervals) <= 1
    /\ autoDemoInterval # NoTimer => intervals = {autoDemoInterval}
    /\ autoDemoInterval = NoTimer => intervals = {}
    /\ autoDemoBtn = "block" => (autoDemoInterval = NoTimer /\ intervals = {})

\* The player was stopped after its morning transition and started again at
\* once: one timer is live, the second the page has created
C22_Witness ==
    /\ autoDemoInterval # NoTimer
    /\ intervals = {autoDemoInterval}
    /\ autoDemoBtn = "none"
    /\ Len(timeouts) = 2
    /\ timeouts[1] = Timeout("player", 2)
    /\ timeouts[2] = Timeout("player", 1)
    /\ currentDemoStep = 1

\* The player was running and stopAutoDemo ran
PlayerStopped == autoDemoInterval # NoTimer /\ autoDemoInterval' = NoTimer

\* The settle runs of the player that are pending in q
PlayerRuns(q) == SelectSeq(q, LAMBDA t : t.src = "player")

\* C23 (as claimed): a settle run scheduled by the player starts an inference
\* only while the player is running, because stopping disposes of the run the
\* last applied preset left pending (under PresetSpec).
C23_StopDisposesSettleRun ==
    [][PlayerRunStarts => autoDemoInterval # NoTimer]_vars

\* C23 (amended): stopping cancels the interval timer and resets the step, and
\* leaves the pending settle runs and the calls in flight as they are; while the
\* player is stopped it applies no preset and schedules no run, and it applies
\* one only when it is started or while its timer is live; and a pending settle
\* run of the player, stopped or not, leaves the queue only by starting an
\* inference on the values the widgets hold then (under PresetSpec).
C23_StopLeavesSettleRun ==
    [][/\ PlayerStopped =>
            /\ timeouts' = timeouts
            /\ inflight' = inflight
            /\ intervals' = {}
            /\ currentDemoStep' = 0
       /\ PlayerApplies =>
            /\ autoDemoInterval' # NoTimer
            /\ TimerStarted \/ autoDemoInterval # NoTimer
       /\ (autoDemoInterval = NoTimer /\ autoDemoInterval' = NoTimer) =>
            Len(PlayerRuns(timeouts')) <= Len(PlayerRuns(timeouts))
       /\ PlayerRuns(timeouts') # PlayerRuns(timeouts) =>
            \/ PlayerApplies
            \/ /\ PlayerRunStarts
               /\ inflight' = Append(inflight,
                                     [input |-> InputArray(getSensorValues(widgets))])]_vars

\* The player was started and stopped within the settle delay: it is idle and
\* the settle run of its first transition is still pending
C23_Witness ==
    /\ autoDemoInterval = NoTimer
    /\ intervals = {}
    /\ autoDemoBtn = "block"
    /\ currentDemoStep = 0
    /\ timeouts = <<Timeout("player", 1)>>
    /\ inflight = <<>>
    /\ widgets = PresetWidgets("empty")

\* C24: the handlers are registered exactly when init has passed both awaits
\* with the session created (the metadata load was made, then the model load,
\* then the registration); until then no handler has run: nothing is scheduled,
\* in flight or timed, nothing was predicted and the auto-demo button is
\* hidden; so a run started through the page finds the session, and the
\* 'model not loaded' alert is never shown.
C24_HandlersAfterSession ==
    /\ listeners <=> initPc = "ready"
    /\ session <=> initPc = "ready"
    /\ listeners => (session /\ createAttempts = 1)
    /\ initPc = "loadModelInfo" => (modelInfo = "null" /\ createAttempts = 0)
    /\ ~listeners =>
         /\ timeouts = <<>>
         /\ inflight = <<>>
         /\ intervals = {}
         /\ triggersLeft = 0
         /\ predictionCount = 0
         /\ results = NoResults
         /\ autoDemoBtn = "none"
    /\ (timeouts # <<>> \/ inflight # <<>> \/ intervals # {}) => session
    /\ alertMsg # ModelNotLoadedAlert

\* The metadata load failed, the model loaded, and a run started through the page
\* has called the engine while a second one is pending
C24_Witness ==
    /\ initPc = "ready"
    /\ modelInfo = "null"
    /\ listeners
    /\ session
    /\ Len(inflight) = 1
    /\ Len(timeouts) = 1
    /\ timeouts[1].src = "manual"
    /\ alertMsg = "none"
    /\ predictionCount = 0

\* The totals an estimate can have, in Wh
EstimateTotals == {0, 20, 150, 170, 1150, 1170}

\* C25: in every estimate an AC saving comes with a fan saving, so the total is
\* one of 0, 20, 150, 170, 1150 and 1170 Wh and never 1000 or 1020 Wh (the AC
\* alone, or with the lights); and over the readings of the ranges each of the
\* six totals is the total of some reading (under EstimatorSpec).
C25_AcImpliesFan ==
    /\ last.estimate.made =>
         /\ last.estimate.acKwh > 0 => last.estimate.fanKwh > 0
         /\ last.estimate.acKwh > 0 <=> widgets.temp > 250
         /\ last.estimate.totalKwh =
               last.estimate.lightsKwh + last.estimate.fanKwh + last.estimate.acKwh
         /\ last.estimate.totalKwh \in EstimateTotals
         /\ last.estimate.totalKwh \notin {1000, 1020}
    /\ {calculateEnergySavings([ambient_light |-> l, temperature |-> t]).totalKwh :
            l \in LightValues, t \in TempValues} = EstimateTotals

\* The estimate of a dark room at 25.1 C: the AC and the fan, 1150 Wh
C25_Witness ==
    /\ last.estimate.made
    /\ widgets.light = 299
    /\ widgets.temp = 251
    /\ last.estimate.lightsKwh = 0
    /\ last.estimate.fanKwh = 150
    /\ last.estimate.acKwh = 1000
    /\ last.estimate.totalKwh = 1150


============================================================================
